---- MODULE Spec2Model ----
(***************************************************************************)
(* The Hinglish cold-call agent of my_submission.py: the driver (main),    *)
(* the agent's construction, its prompt templates, the conversation        *)
(* memory and the greeting / listen-process-speak / farewell lifecycle of  *)
(* GeminiAgent.start_call.                                                 *)
(*                                                                         *)
(* A text is a sequence of string fragments whose concatenation is the     *)
(* text; the empty text is << >>.  Transcripts of the speech recogniser    *)
(* and the driver's keyboard input are held one character per fragment,    *)
(* so that str.lower() and str.strip() act on them character by character. *)
(***************************************************************************)
EXTENDS Integers, Sequences, FiniteSets, TLC

(* ---- bounds of the model ---- *)
\* recognize_speech calls made on one agent
MaxListens == 3
\* direct calls of the agent's methods by a client (SpecApi)
MaxApiCalls == 2
\* messages appended to a ConversationMemory by a client (SpecMemory)
MaxMessages == 3

(* ---- text helpers ---- *)
Upper == <<"A","B","C","D","E","F","G","H","I","J","K","L","M",
           "N","O","P","Q","R","S","T","U","V","W","X","Y","Z">>
Lowercase == <<"a","b","c","d","e","f","g","h","i","j","k","l","m",
               "n","o","p","q","r","s","t","u","v","w","x","y","z">>

\* str.lower() on one character
LowerChar(c) ==
    IF \E i \in DOMAIN Upper : Upper[i] = c
    THEN Lowercase[CHOOSE i \in DOMAIN Upper : Upper[i] = c]
    ELSE c

\* str.lower() on a text held one character per fragment
Lower(s) == [i \in DOMAIN s |-> LowerChar(s[i])]

\* str.strip(): leading and trailing blanks removed
RECURSIVE LStrip(_)
LStrip(s) == IF s # << >> /\ Head(s) = " " THEN LStrip(Tail(s)) ELSE s
RECURSIVE RStrip(_)
RStrip(s) == IF s # << >> /\ s[Len(s)] = " " THEN RStrip(SubSeq(s, 1, Len(s) - 1)) ELSE s
Strip(s) == RStrip(LStrip(s))

\* dict.get(key, "")
DictGet(d, key) == IF key \in DOMAIN d THEN d[key] ELSE << >>

\* the empty dict
EmptyDict == [k \in {} |-> << >>]

(* ---- ConversationMemory ---- *)
\* ConversationMemory.__init__: both buckets empty
InitContext == [profile |-> EmptyDict, knowledge |-> EmptyDict]

add_user_message(msgs, message) == Append(msgs, [role |-> "user", content |-> message])

add_agent_message(msgs, message) == Append(msgs, [role |-> "agent", content |-> message])

\* a rendering with the two role labels exchanged
RECURSIVE get_conversation_history_labels_swapped(_)
get_conversation_history_labels_swapped(msgs) ==
    IF msgs = << >> THEN << >>
    ELSE LET msg == Head(msgs)
             prefix == IF msg.role = "user" THEN "AI" ELSE "Customer"
         IN  <<prefix, ": ">> \o msg.content \o <<"\n">>
             \o get_conversation_history_labels_swapped(Tail(msgs))

RECURSIVE get_conversation_history(_)
get_conversation_history(msgs) ==
    IF msgs = << >> THEN << >>
    ELSE LET msg == Head(msgs)
             prefix == IF msg.role = "user" THEN "Customer" ELSE "AI"
         IN  <<prefix, ": ">> \o msg.content \o <<"\n">>
             \o get_conversation_history(Tail(msgs))

(* ---- scenario data ---- *)
Scenarios == {"demo", "interview", "payment"}
Phases == {"greeting", "conversation", "farewell"}

\* GeminiAgent._load_scenario_data: the context after loading, from the
\* freshly constructed memory; an unrecognised scenario loads nothing
LoadScenarioData(scn) ==
    IF scn = "demo" THEN
        [profile |-> [name |-> <<"Ansh Aggarwal">>,
                      company |-> <<"Tech Solutions Ltd">>,
                      role |-> <<"IT Manager">>,
                      interest_area |-> <<"Inventory Management and HR modules">>,
                      company_size |-> <<"150 employees">>],
         knowledge |-> InitContext.knowledge]
    ELSE IF scn = "interview" THEN
        [profile |-> [name |-> <<"Ansh Aggarwal">>,
                      experience |-> <<"3 years">>,
                      current_role |-> <<"Junior Developer">>,
                      applied_for |-> <<"Software Engineer">>],
         knowledge |-> [position |-> <<"Software Engineer">>,
                        skills |-> <<"Python, React, SQL, Cloud platforms">>,
                        experience_required |-> <<"2-5 years">>,
                        company_domain |-> <<"FinTech">>]]
    ELSE IF scn = "payment" THEN
        [profile |-> [name |-> <<"Customer">>,
                      company |-> <<"Global Enterprises">>,
                      role |-> <<"Procurement Manager">>],
         knowledge |-> [invoice_number |-> <<"INV-2024-1075">>,
                        \* the rupee sign of the source is written Rs
                        due_amount |-> <<"Rs 4,85,000">>,
                        days_late |-> <<"45">>,
                        payment_history |-> <<"Generally good, but occasional delays">>]]
    ELSE InitContext

(* ---- prompt templates ---- *)
\* A template is a sequence of parts: literal text, or a {placeholder}.
\* The literal prose of each template is abridged to its opening sentence,
\* the label in front of each placeholder and its closing instruction.
L(s) == [kind |-> "lit", val |-> s]
F(s) == [kind |-> "field", val |-> s]

DemoProfileFull ==
    <<L("Customer profile: Name: "), F("name"), L("Company: "), F("company"),
      L("Role: "), F("role"), L("Interest area: "), F("interest_area"),
      L("Company size: "), F("company_size")>>

InterviewProfileFull ==
    <<L("Candidate profile: Name: "), F("name"), L("Experience: "), F("experience"),
      L("Current role: "), F("current_role"), L("Applied for: "), F("applied_for"),
      L("Position details: Position: "), F("position"),
      L("Skills required: "), F("skills"),
      L("Experience required: "), F("experience_required"),
      L("Company domain: "), F("company_domain")>>

\* the payment block without its payment-history line
PaymentProfileFull_without_history ==
    <<L("Customer profile: Name: "), F("name"), L("Company: "), F("company"),
      L("Role: "), F("role"),
      L("Invoice details: Invoice number: "), F("invoice_number"),
      L("Due amount: "), F("due_amount"), L("Days late: "), F("days_late")>>

PaymentProfileFull ==
    <<L("Customer profile: Name: "), F("name"), L("Company: "), F("company"),
      L("Role: "), F("role"),
      L("Invoice details: Invoice number: "), F("invoice_number"),
      L("Due amount: "), F("due_amount"), L("Days late: "), F("days_late"),
      L("Payment history: "), F("payment_history")>>

Templates ==
    [demo |->
       [greeting |->
          <<L("You are an AI assistant conducting a cold call in Hinglish.")>>
          \o DemoProfileFull
          \o <<L("Start with a friendly greeting in Hinglish.")>>,
        conversation |->
          <<L("You are an AI assistant conducting a cold call in Hinglish.")>>
          \o DemoProfileFull
          \o <<L("Conversation history: "), F("conversation_history"),
               L("Customer's most recent message: "), F("user_input"),
               L("Respond in Hinglish with a friendly, professional tone.")>>,
        farewell |->
          <<L("You are an AI assistant concluding a cold call in Hinglish."),
            L("Customer profile: Name: "), F("name"), L("Company: "), F("company"),
            L("Conversation history: "), F("conversation_history"),
            L("Create a polite and warm closing statement in Hinglish.")>>],
     interview |->
       [greeting |->
          <<L("You are an AI assistant conducting an interview in Hinglish.")>>
          \o InterviewProfileFull
          \o <<L("Start with a friendly greeting in Hinglish.")>>,
        conversation |->
          <<L("You are an AI assistant conducting an interview in Hinglish.")>>
          \o InterviewProfileFull
          \o <<L("Interview history: "), F("conversation_history"),
               L("Candidate's most recent response: "), F("user_input"),
               L("Respond in Hinglish with a professional tone.")>>,
        farewell |->
          <<L("You are an AI assistant concluding an interview in Hinglish."),
            L("Candidate profile: Name: "), F("name"),
            L("Applied for: "), F("applied_for"),
            L("Interview history: "), F("conversation_history"),
            L("Create a polite and professional closing statement in Hinglish.")>>],
     payment |->
       [greeting |->
          <<L("You are an AI assistant conducting a payment follow-up call in Hinglish.")>>
          \o PaymentProfileFull
          \o <<L("Start with a polite greeting in Hinglish.")>>,
        conversation |->
          <<L("You are an AI assistant conducting a payment follow-up call in Hinglish.")>>
          \o PaymentProfileFull
          \o <<L("Conversation history: "), F("conversation_history"),
               L("Customer's most recent message: "), F("user_input"),
               L("Respond in Hinglish with a professional tone.")>>,
        farewell |->
          <<L("You are an AI assistant concluding a payment follow-up call in Hinglish."),
            L("Customer profile: Name: "), F("name"), L("Company: "), F("company"),
            L("Invoice details: Invoice number: "), F("invoice_number"),
            L("Due amount: "), F("due_amount"),
            L("Conversation history: "), F("conversation_history"),
            L("Create a polite and professional closing statement in Hinglish.")>>]]

\* the empty template string ""
EmptyTemplate == << >>

\* GeminiAgent._get_prompt_template:
\* templates.get(self.scenario, {}).get(phase, "")
GetPromptTemplate(scn, phase) ==
    IF scn \in DOMAIN Templates
    THEN IF phase \in DOMAIN Templates[scn] THEN Templates[scn][phase] ELSE EmptyTemplate
    ELSE EmptyTemplate

\* the placeholders a template refers to
Placeholders(t) == {t[i].val : i \in {j \in DOMAIN t : t[j].kind = "field"}}

\* GeminiAgent._format_prompt: the keyword arguments handed to str.format
FormatArgs(ctx, msgs, user_input) ==
    LET profile == ctx.profile
        knowledge == ctx.knowledge
    IN  [name |-> DictGet(profile, "name"),
         company |-> DictGet(profile, "company"),
         role |-> DictGet(profile, "role"),
         interest_area |-> DictGet(profile, "interest_area"),
         company_size |-> DictGet(profile, "company_size"),
         experience |-> DictGet(profile, "experience"),
         current_role |-> DictGet(profile, "current_role"),
         applied_for |-> DictGet(profile, "applied_for"),
         position |-> DictGet(knowledge, "position"),
         skills |-> DictGet(knowledge, "skills"),
         experience_required |-> DictGet(knowledge, "experience_required"),
         company_domain |-> DictGet(knowledge, "company_domain"),
         invoice_number |-> DictGet(knowledge, "invoice_number"),
         due_amount |-> DictGet(knowledge, "due_amount"),
         days_late |-> DictGet(knowledge, "days_late"),
         payment_history |-> DictGet(knowledge, "payment_history"),
         conversation_history |-> get_conversation_history(msgs),
         user_input |-> user_input]

\* str.format: every placeholder replaced by its keyword argument
RECURSIVE StrFormat(_, _)
StrFormat(t, args) ==
    IF t = << >> THEN << >>
    ELSE (IF Head(t).kind = "field" THEN args[Head(t).val] ELSE <<Head(t).val>>)
         \o StrFormat(Tail(t), args)

FormatPrompt(template, ctx, msgs, user_input) ==
    StrFormat(template, FormatArgs(ctx, msgs, user_input))

(* ---- inputs of the model ---- *)
\* what recognize_google transcribes
Transcripts ==
    { <<"b","y","e">>,
      <<"B","Y","E">>,
      <<"G","o","o","d","b","y","e">>,
      <<"e","n","d"," ","c","a","l","l">>,
      <<"Q","u","i","t">>,
      <<"e","x","i","t">>,
      <<"b","y","e","-","b","y","e">>,
      <<"g","o","o","d","b","y","e"," ","f","o","r"," ","n","o","w">>,
      <<"H","e","l","l","o">> }

\* what the generation backend answers when it answers
Responses == { <<"Namaste ji">> }

\* generate_content either returns a text or raises
BackendOutcomes == [ok : {TRUE}, text : Responses] \cup {[ok |-> FALSE, text |-> << >>]}

\* recognize_speech: a transcript, one of the three failures it catches,
\* or any other exception (no microphone, calibration failure), which it lets through
RecognizeOutcomes ==
    [kind : {"text"}, text : Transcripts]
    \cup [kind : {"UnknownValueError", "RequestError", "WaitTimeoutError", "raise"},
          text : {<< >>}]

\* speak: played; synthesis failed, caught and logged; or the cleanup in its
\* finally block (unload, remove) raised
SpeakOutcomes == {"played", "tts_error", "raise"}

\* what the user types at the driver's prompt
RawChoices ==
    { <<"1">>,
      <<"2">>,
      <<"3">>,
      <<"9">>,
      <<>>,
      <<" ","2"," ">>,
      <<"1","2">> }

\* scenarios a client may construct an agent with; "sales" is not a known one
ScenarioInputs == Scenarios \cup {"sales"}
\* the inputs a client hands to run_conversation_chain directly
ApiInputs == { <<"h","e","l","l","o">>, <<"b","y","e">> }
\* phases a client may look a template up for; "closing" is not a known one
PhaseInputs == Phases \cup {"closing"}

(* ---- the agent's constants ---- *)
\* the list of exit commands of start_call
ExitPhrases ==
    { <<"b","y","e">>,
      <<"g","o","o","d","b","y","e">>,
      <<"e","n","d"," ","c","a","l","l">>,
      <<"q","u","i","t">>,
      <<"e","x","i","t">>,
      <<"b","y","e","-","b","y","e">> }

\* the fixed apology generate_response returns when the backend fails
Fallback == <<"Sorry, I'm having trouble generating a response. Let me try again.">>

(* ---- state ---- *)
VARIABLES
    pc,          \* where the driver / start_call stands
    choice,      \* main: the stripped keyboard input
    printed,     \* main: whether "Invalid choice" was printed
    nAgents,     \* GeminiAgent objects constructed
    scenario,    \* self.scenario
    context,     \* self.memory.context
    messages,    \* self.memory.messages
    running,     \* self.running
    user_input,  \* start_call: the local user_input
    heard,       \* how the last recognize_speech call went (its outcome)
    history,     \* what the last direct get_conversation_history call returned
    response,    \* the text the last chain returned (greeting / response / farewell)
    phase,       \* the phase of the last _get_prompt_template call
    template,    \* what the last _get_prompt_template call returned
    prompt,      \* the prompt of the last model.generate_content call
    backend,     \* how the last generate_content call ended: "none", "ok", "fail"
    speak_text,  \* the text of the last speech_handler.speak call
    exc,         \* the exception in flight in start_call: "none" or "Exception"
    failed,      \* an exception was raised inside start_call's try block
    escaped,     \* an exception left start_call
    nGreeting,   \* run_greeting_chain calls
    nTurn,       \* run_conversation_chain calls
    nFarewell,   \* run_farewell_chain calls
    nGenerate,   \* model.generate_content calls
    nSpeak,      \* speech_handler.speak calls
    nListen,     \* speech_handler.recognize_speech calls
    nApi         \* direct method calls made by a client

driverVars == <<choice, printed, nAgents>>
agentVars == <<scenario, context>>
chainVars == <<messages, response, phase, template, prompt, backend,
               nGreeting, nTurn, nFarewell, nGenerate>>
excVars == <<exc, failed, escaped>>
vars == <<pc, choice, printed, nAgents, scenario, context, messages, running,
          user_input, heard, history, response, phase, template, prompt, backend, speak_text,
          exc, failed, escaped, nGreeting, nTurn, nFarewell, nGenerate, nSpeak,
          nListen, nApi>>

(* ---- the agent's methods ---- *)
\* generate_response that returns no text when the backend fails
generate_response_empty_on_failure(out) == IF out.ok THEN out.text ELSE << >>

\* GeminiAgent.generate_response: the backend's text, or the fallback
\* when generate_content (or reading response.text) raises
generate_response(out) == IF out.ok THEN out.text ELSE Fallback

\* the bookkeeping of one model.generate_content(p) call
CallBackend(p, out) ==
    /\ prompt' = p
    /\ backend' = IF out.ok THEN "ok" ELSE "fail"
    /\ nGenerate' = nGenerate + 1

\* GeminiAgent.run_greeting_chain
run_greeting_chain(out) ==
    LET t == GetPromptTemplate(scenario, "greeting")
        p == FormatPrompt(t, context, messages, << >>)
        result == generate_response(out)
    IN  /\ phase' = "greeting"
        /\ template' = t
        /\ CallBackend(p, out)
        /\ messages' = add_agent_message(messages, result)
        /\ response' = result
        /\ nGreeting' = nGreeting + 1
        /\ UNCHANGED <<nTurn, nFarewell>>

\* GeminiAgent.run_conversation_chain
run_conversation_chain(input, out) ==
    LET withUser == add_user_message(messages, input)
        t == GetPromptTemplate(scenario, "conversation")
        p == FormatPrompt(t, context, withUser, input)
        result == generate_response(out)
    IN  /\ phase' = "conversation"
        /\ template' = t
        /\ CallBackend(p, out)
        /\ messages' = add_agent_message(withUser, result)
        /\ response' = result
        /\ nTurn' = nTurn + 1
        /\ UNCHANGED <<nGreeting, nFarewell>>

\* a farewell chain that does not record the farewell in the history
run_farewell_chain_unrecorded(out) ==
    LET t == GetPromptTemplate(scenario, "farewell")
        p == FormatPrompt(t, context, messages, << >>)
        result == generate_response(out)
    IN  /\ phase' = "farewell"
        /\ template' = t
        /\ CallBackend(p, out)
        /\ messages' = messages
        /\ response' = result
        /\ nFarewell' = nFarewell + 1
        /\ UNCHANGED <<nGreeting, nTurn>>

\* GeminiAgent.run_farewell_chain
run_farewell_chain(out) ==
    LET t == GetPromptTemplate(scenario, "farewell")
        p == FormatPrompt(t, context, messages, << >>)
        result == generate_response(out)
    IN  /\ phase' = "farewell"
        /\ template' = t
        /\ CallBackend(p, out)
        /\ messages' = add_agent_message(messages, result)
        /\ response' = result
        /\ nFarewell' = nFarewell + 1
        /\ UNCHANGED <<nGreeting, nTurn>>

\* SpeechHandler.recognize_speech: the lower-cased transcript, or "" after
\* one of the three failures it catches
recognize_speech(o) == IF o.kind = "text" THEN Lower(o.text) ELSE << >>

\* start_call, the exit test: user_input.lower() in [...]
IsExitCommand(input) == Lower(input) \in ExitPhrases

\* an exit test that looks for an exit command anywhere in the input
AfterListen_substring(input) ==
    IF \E i, j \in 1..Len(input) : SubSeq(Lower(input), i, j) \in ExitPhrases
    THEN "farewell"
    ELSE IF input # << >> THEN "turn"
    ELSE "loop"

\* a loop body without the test for a non-empty input
AfterListen_no_empty_test(input) ==
    IF IsExitCommand(input) THEN "farewell" ELSE "turn"

\* start_call, the body of the while loop after listening: leave the loop on
\* an exit command, process a non-empty input, else go round again
AfterListen(input) ==
    IF IsExitCommand(input) THEN "farewell"
    ELSE IF input # << >> THEN "turn"
    ELSE "loop"

\* a statement of start_call's try block raises: control goes to the handler
Raise ==
    /\ exc' = "Exception"
    /\ failed' = TRUE
    /\ pc' = "except"
    /\ UNCHANGED escaped

\* start_call: "except Exception" catches whatever derives from Exception
Catches(e) == e = "Exception"

\* end_call that leaves the flag as it finds it
end_call_leaves_flag == running

\* GeminiAgent.end_call: the value of self.running after it
end_call == FALSE

\* a lookup that falls back to the demo scenario
ScenarioMapGet_default_demo(c) ==
    IF c = <<"2">> THEN "interview"
    ELSE IF c = <<"3">> THEN "payment"
    ELSE "demo"

\* main: scenario_map.get(choice)
ScenarioMapGet(c) ==
    IF c = <<"1">> THEN "demo"
    ELSE IF c = <<"2">> THEN "interview"
    ELSE IF c = <<"3">> THEN "payment"
    ELSE "None"

\* GeminiAgent.__init__: the fields of a new agent
Construct(scn) ==
    /\ scenario' = scn
    /\ context' = LoadScenarioData(scn)
    /\ messages' = << >>
    /\ running' = FALSE
    /\ nAgents' = nAgents + 1

(* ---- initial states ---- *)
NoAgent ==
    /\ scenario = "None"
    /\ context = InitContext
    /\ messages = << >>
    /\ running = FALSE

Idle ==
    /\ user_input = << >>
    /\ heard = [kind |-> "none", text |-> << >>]
    /\ history = << >>
    /\ response = << >>
    /\ phase = "none"
    /\ template = EmptyTemplate
    /\ prompt = << >>
    /\ backend = "none"
    /\ speak_text = << >>
    /\ exc = "none"
    /\ failed = FALSE
    /\ escaped = FALSE
    /\ nGreeting = 0
    /\ nTurn = 0
    /\ nFarewell = 0
    /\ nGenerate = 0
    /\ nSpeak = 0
    /\ nListen = 0
    /\ nApi = 0

\* the program is started: main has not yet read the choice
Init ==
    /\ pc = "main"
    /\ choice = << >>
    /\ printed = FALSE
    /\ nAgents = 0
    /\ NoAgent
    /\ Idle

\* a client has constructed one agent, for any scenario string
InitApi ==
    /\ pc = "idle"
    /\ choice = << >>
    /\ printed = FALSE
    /\ nAgents = 1
    /\ \E scn \in ScenarioInputs :
          /\ scenario = scn
          /\ context = LoadScenarioData(scn)
    /\ messages = << >>
    /\ running = FALSE
    /\ Idle

(* ---- the driver ---- *)
\* main: read the choice; an unmapped choice prints the error and returns,
\* a mapped one constructs the agent and calls start_call
Main ==
    /\ pc = "main"
    /\ \E raw \in RawChoices :
          LET c == Strip(raw)
              scn == ScenarioMapGet(c)
          IN  /\ choice' = c
              /\ IF scn = "None"
                 THEN /\ printed' = TRUE
                      /\ pc' = "exit"
                      /\ UNCHANGED <<nAgents, scenario, context, messages, running>>
                 ELSE /\ printed' = FALSE
                      /\ Construct(scn)
                      /\ pc' = "start_call"
    /\ UNCHANGED <<user_input, heard, response, phase, template, prompt, backend, speak_text,
                   nGreeting, nTurn, nFarewell, nGenerate, nSpeak, nListen, nApi>>
    /\ UNCHANGED excVars
    /\ UNCHANGED history

(* ---- GeminiAgent.start_call, statement by statement ---- *)
\* start_call that enters the loop without greeting
StartCall_without_greeting ==
    /\ pc = "start_call"
    /\ running' = TRUE
    /\ pc' = "loop"
    /\ exc' = "none"
    /\ failed' = FALSE
    /\ UNCHANGED <<escaped, user_input, heard, speak_text, nSpeak, nListen, nApi>>
    /\ UNCHANGED <<driverVars, agentVars, chainVars>>
    /\ UNCHANGED history

\* self.running = True, then the try block is entered
StartCall ==
    /\ pc = "start_call"
    /\ running' = TRUE
    /\ pc' = "greeting"
    /\ exc' = "none"
    /\ failed' = FALSE
    /\ UNCHANGED <<escaped, user_input, heard, speak_text, nSpeak, nListen, nApi>>
    /\ UNCHANGED <<driverVars, agentVars, chainVars>>
    /\ UNCHANGED history

\* greeting = self.run_greeting_chain()
Greeting ==
    /\ pc = "greeting"
    /\ \E out \in BackendOutcomes : run_greeting_chain(out)
    /\ pc' = "speak_greeting"
    /\ UNCHANGED <<running, user_input, heard, speak_text, nSpeak, nListen, nApi>>
    /\ UNCHANGED <<driverVars, agentVars, excVars>>
    /\ UNCHANGED history

\* self.speech_handler.speak(text) at position `at`, continuing at `next`
SpeakAt(at, next) ==
    /\ pc = at
    /\ speak_text' = response
    /\ nSpeak' = nSpeak + 1
    /\ UNCHANGED heard
    /\ \E o \in SpeakOutcomes :
          IF o = "raise" THEN Raise ELSE pc' = next /\ UNCHANGED excVars
    /\ UNCHANGED <<running, user_input, nListen, nApi>>
    /\ UNCHANGED <<driverVars, agentVars, chainVars>>
    /\ UNCHANGED history

\* self.speech_handler.speak(greeting), then into the loop
SpeakGreeting == SpeakAt("speak_greeting", "loop")

\* while self.running:
WhileRunning ==
    /\ pc = "loop"
    /\ pc' = IF running THEN "listen" ELSE "farewell"
    /\ UNCHANGED <<running, user_input, heard, speak_text, nSpeak, nListen, nApi>>
    /\ UNCHANGED <<driverVars, agentVars, chainVars, excVars>>
    /\ UNCHANGED history

\* user_input = self.speech_handler.recognize_speech()
Listen ==
    /\ pc = "listen"
    /\ nListen < MaxListens
    /\ nListen' = nListen + 1
    /\ \E o \in RecognizeOutcomes :
          /\ heard' = o
          /\ IF o.kind = "raise"
             THEN Raise /\ UNCHANGED user_input
             ELSE /\ user_input' = recognize_speech(o)
                  /\ pc' = "check"
                  /\ UNCHANGED excVars
    /\ UNCHANGED <<running, speak_text, nSpeak, nApi>>
    /\ UNCHANGED <<driverVars, agentVars, chainVars>>
    /\ UNCHANGED history

\* the exit test and the test for a non-empty input
Check ==
    /\ pc = "check"
    /\ pc' = AfterListen(user_input)
    /\ UNCHANGED <<running, user_input, heard, speak_text, nSpeak, nListen, nApi>>
    /\ UNCHANGED <<driverVars, agentVars, chainVars, excVars>>
    /\ UNCHANGED history

\* response = self.run_conversation_chain(user_input)
Turn ==
    /\ pc = "turn"
    /\ \E out \in BackendOutcomes : run_conversation_chain(user_input, out)
    /\ pc' = "speak_response"
    /\ UNCHANGED <<running, user_input, heard, speak_text, nSpeak, nListen, nApi>>
    /\ UNCHANGED <<driverVars, agentVars, excVars>>
    /\ UNCHANGED history

\* a loop that goes to the farewell after speaking one response
SpeakResponse_then_farewell == SpeakAt("speak_response", "farewell")

\* self.speech_handler.speak(response), then round the loop again
SpeakResponse == SpeakAt("speak_response", "loop")

\* farewell = self.run_farewell_chain()
Farewell ==
    /\ pc = "farewell"
    /\ \E out \in BackendOutcomes : run_farewell_chain(out)
    /\ pc' = "speak_farewell"
    /\ UNCHANGED <<running, user_input, heard, speak_text, nSpeak, nListen, nApi>>
    /\ UNCHANGED <<driverVars, agentVars, excVars>>
    /\ UNCHANGED history

\* self.speech_handler.speak(farewell), then the finally block
SpeakFarewell == SpeakAt("speak_farewell", "finally")

\* except Exception as e: log and print
Except ==
    /\ pc = "except"
    /\ exc' = IF Catches(exc) THEN "none" ELSE exc
    /\ pc' = "finally"
    /\ UNCHANGED <<failed, escaped>>
    /\ UNCHANGED <<running, user_input, heard, speak_text, nSpeak, nListen, nApi>>
    /\ UNCHANGED <<driverVars, agentVars, chainVars>>
    /\ UNCHANGED history

\* finally: self.end_call(); then start_call returns, or an exception
\* still in flight leaves it
Finally ==
    /\ pc = "finally"
    /\ running' = end_call
    /\ escaped' = (exc # "none")
    /\ pc' = "done"
    /\ UNCHANGED <<exc, failed>>
    /\ UNCHANGED <<user_input, heard, speak_text, nSpeak, nListen, nApi>>
    /\ UNCHANGED <<driverVars, agentVars, chainVars>>
    /\ UNCHANGED history

CallSteps ==
    \/ StartCall
    \/ Greeting
    \/ SpeakGreeting
    \/ WhileRunning
    \/ Listen
    \/ Check
    \/ Turn
    \/ SpeakResponse
    \/ Farewell
    \/ SpeakFarewell
    \/ Except
    \/ Finally

(* ---- the program: main drives one call ---- *)
Next == Main \/ CallSteps

Spec == Init /\ [][Next]_vars

(* ---- the agent as an object: a client calls its methods ---- *)
\* no call is in progress on the agent
AtRest == pc \in {"idle", "done"}

ApiStartCall ==
    /\ AtRest
    /\ nApi < MaxApiCalls
    /\ nApi' = nApi + 1
    /\ pc' = "start_call"
    /\ UNCHANGED <<running, user_input, heard, speak_text, nSpeak, nListen>>
    /\ UNCHANGED <<driverVars, agentVars, chainVars, excVars>>
    /\ UNCHANGED history

ApiRunGreeting ==
    /\ AtRest
    /\ nApi < MaxApiCalls
    /\ nApi' = nApi + 1
    /\ \E out \in BackendOutcomes : run_greeting_chain(out)
    /\ UNCHANGED <<pc, running, user_input, heard, speak_text, nSpeak, nListen>>
    /\ UNCHANGED <<driverVars, agentVars, excVars>>
    /\ UNCHANGED history

ApiRunTurn ==
    /\ AtRest
    /\ nApi < MaxApiCalls
    /\ nApi' = nApi + 1
    /\ \E input \in ApiInputs, out \in BackendOutcomes :
          run_conversation_chain(input, out)
    /\ UNCHANGED <<pc, running, user_input, heard, speak_text, nSpeak, nListen>>
    /\ UNCHANGED <<driverVars, agentVars, excVars>>
    /\ UNCHANGED history

ApiRunFarewell ==
    /\ AtRest
    /\ nApi < MaxApiCalls
    /\ nApi' = nApi + 1
    /\ \E out \in BackendOutcomes : run_farewell_chain(out)
    /\ UNCHANGED <<pc, running, user_input, heard, speak_text, nSpeak, nListen>>
    /\ UNCHANGED <<driverVars, agentVars, excVars>>
    /\ UNCHANGED history

\* a direct self._get_prompt_template(phase)
ApiGetPromptTemplate ==
    /\ AtRest
    /\ nApi < MaxApiCalls
    /\ nApi' = nApi + 1
    /\ \E ph \in PhaseInputs :
          /\ phase' = ph
          /\ template' = GetPromptTemplate(scenario, ph)
    /\ UNCHANGED <<messages, response, prompt, backend,
                   nGreeting, nTurn, nFarewell, nGenerate>>
    /\ UNCHANGED <<pc, running, user_input, heard, speak_text, nSpeak, nListen>>
    /\ UNCHANGED <<driverVars, agentVars, excVars>>
    /\ UNCHANGED history

NextApi ==
    \/ ApiStartCall
    \/ ApiRunGreeting
    \/ ApiRunTurn
    \/ ApiRunFarewell
    \/ ApiGetPromptTemplate
    \/ CallSteps

SpecApi == InitApi /\ [][NextApi]_vars

(* ---- the conversation memory as an object: a client appends and renders ---- *)
\* contents a client appends; the last one holds a line break
MemoryTexts ==
    { <<"hello">>, << >>, <<"Namaste ji,", "\n", "kaise hain aap?">> }

\* what a memory step leaves alone
memoryFrame ==
    <<choice, printed, nAgents, scenario, context, running, user_input, heard,
      response, phase, template, prompt, backend, speak_text, exc, failed, escaped,
      nGreeting, nTurn, nFarewell, nGenerate, nSpeak, nListen, nApi>>

\* a fresh ConversationMemory
InitMemory ==
    /\ pc = "memory"
    /\ choice = << >>
    /\ printed = FALSE
    /\ nAgents = 0
    /\ NoAgent
    /\ Idle

\* memory.add_user_message(text)
AddUserMessage ==
    /\ pc \in {"memory", "rendered"}
    /\ Len(messages) < MaxMessages
    /\ \E text \in MemoryTexts : messages' = add_user_message(messages, text)
    /\ pc' = "memory"
    /\ UNCHANGED history
    /\ UNCHANGED memoryFrame

\* memory.add_agent_message(text)
AddAgentMessage ==
    /\ pc \in {"memory", "rendered"}
    /\ Len(messages) < MaxMessages
    /\ \E text \in MemoryTexts : messages' = add_agent_message(messages, text)
    /\ pc' = "memory"
    /\ UNCHANGED history
    /\ UNCHANGED memoryFrame

\* memory.get_conversation_history(): the rendering is returned, self.messages
\* is only read
GetConversationHistory ==
    /\ pc \in {"memory", "rendered"}
    /\ history' = get_conversation_history(messages)
    /\ pc' = "rendered"
    /\ UNCHANGED messages
    /\ UNCHANGED memoryFrame

NextMemory ==
    \/ AddUserMessage
    \/ AddAgentMessage
    \/ GetConversationHistory

SpecMemory == InitMemory /\ [][NextMemory]_vars

(* ---- the claims ---- *)
\* positions of start_call after the greeting chain has returned
AfterGreeting ==
    {"speak_greeting", "loop", "listen", "check", "turn", "speak_response",
     "farewell", "speak_farewell", "except", "finally", "done"}

\* positions inside the while loop of start_call
InLoop == {"loop", "listen", "check", "turn", "speak_response"}

\* C1: when start_call has returned after an exception was raised in its try
\* block (by listening or speaking), the farewell chain has been run.
C1_FarewellAfterFailure == (pc = "done" /\ failed) => nFarewell >= 1

\* C2: when start_call has returned, on whatever path, self.running is false
\* and no exception is in flight or has left start_call.
C2_EndedOnEveryExit == pc = "done" => (running = FALSE /\ exc = "none" /\ ~escaped)

\* C2 witness: start_call has returned after speaking the farewell raised.
C2_Witness == pc = "done" /\ failed /\ nFarewell = 1 /\ nTurn = 1 /\ ~running

\* C3: the greeting chain runs at most once, it has run exactly once as soon
\* as start_call is past it, no conversation turn is processed before it, and
\* the greeting is the first turn of the history.
C3_GreetingOnceBeforeTurns ==
    /\ nGreeting <= 1
    /\ (pc \in AfterGreeting => nGreeting = 1)
    /\ (nTurn > 0 => nGreeting = 1)
    /\ (nTurn > 0 \/ nFarewell > 0 => messages # << >> /\ messages[1].role = "agent")
    /\ (nGreeting = 0 => messages = << >>)

\* C3 witness: two conversation turns have been processed after the greeting.
C3_Witness == nGreeting = 1 /\ nTurn = 2 /\ pc = "loop"

\* C4: once start_call has returned, nothing appends to the history, sets the
\* running flag again or starts the lifecycle again.
C4_EndedIsTerminal ==
    [][pc = "done" => (messages' = messages /\ running' = running /\ pc' = "done")]_vars

\* C5: a conversation turn appends exactly the user's turn and then one agent
\* turn to the history; when the backend fails, the agent turn and the text
\* returned are the fallback; no exception goes to the handler.
C5_TurnAppendsTwo ==
    [][nTurn' # nTurn =>
        LET n == Len(messages) IN
        /\ nTurn' = nTurn + 1
        /\ Len(messages') = n + 2
        /\ SubSeq(messages', 1, n) = messages
        /\ messages'[n + 1] = [role |-> "user", content |-> user_input]
        /\ messages'[n + 2] = [role |-> "agent", content |-> response']
        /\ (backend' = "fail" => response' = Fallback)
        /\ (backend' = "ok" => response' \in Responses)
        /\ pc' = "speak_response"
        /\ exc' = "none" /\ failed' = failed]_vars

\* C5 witness: a conversation turn has just been processed with the backend failing.
C5_Witness ==
    /\ pc = "speak_response"
    /\ backend = "fail"
    /\ Len(messages) = 3
    /\ messages[3].content = Fallback

\* C6: a conversation turn calls the backend once and is followed by speaking
\* what it returned (the fallback when the backend failed); after speaking, the
\* controller is back at the head of the loop and listens; a turn is started
\* only by a new input; the loop is left only for the farewell, on an exit
\* command, or for the handler, on an exception.
C6_FailureKeepsLoop ==
    [][/\ (pc = "turn" => nGenerate' = nGenerate + 1 /\ pc' = "speak_response")
       /\ (nGenerate' # nGenerate =>
             nGenerate' = nGenerate + 1 /\ pc \in {"greeting", "turn", "farewell"})
       /\ (pc = "speak_response" =>
             /\ speak_text' = response
             /\ nSpeak' = nSpeak + 1
             /\ (backend = "fail" => speak_text' = Fallback)
             /\ pc' \in {"loop", "except"}
             /\ (pc' = "except" <=> failed' /\ ~failed))
       /\ (pc = "loop" => pc' = "listen" /\ running)
       /\ (pc' = "turn" => pc = "check")
       /\ (pc \in InLoop /\ pc' \notin InLoop =>
             \/ pc' = "farewell" /\ pc = "check" /\ IsExitCommand(user_input)
             \/ pc' = "except" /\ exc' = "Exception")]_vars

\* C6 witness: after a turn whose generation failed the controller has
\* listened again and holds the next input.
C6_Witness ==
    /\ pc = "check"
    /\ nListen = 2
    /\ nTurn = 1
    /\ backend = "fail"
    /\ speak_text = Fallback
    /\ running

\* C7: a template lookup for a (scenario, phase) pair outside the nine known
\* ones never yields the empty template, and no empty prompt is sent to the
\* generation backend.
C7_UnknownKeyFailsLoudly ==
    /\ (phase # "none" /\ ~(scenario \in Scenarios /\ phase \in Phases)
           => template # EmptyTemplate)
    /\ (nGenerate > 0 => prompt # << >>)

\* the exit commands as the claim lists them
C8_ExitSet ==
    { <<"b","y","e">>,
      <<"g","o","o","d","b","y","e">>,
      <<"e","n","d"," ","c","a","l","l">>,
      <<"q","u","i","t">>,
      <<"e","x","i","t">>,
      <<"b","y","e","-","b","y","e">> }

\* C8: after listening, control passes to the farewell if and only if the
\* lower-cased transcript is one of the exit commands; any other transcript,
\* also one that contains an exit command, is processed as a turn; and the
\* farewell is reached from nowhere else.
C8_ExitIffExactPhrase ==
    [][/\ (pc = "check" =>
             (pc' = "farewell" <=> (heard.kind = "text" /\ Lower(heard.text) \in C8_ExitSet)))
       /\ (pc = "check" /\ heard.kind = "text" /\ Lower(heard.text) \notin C8_ExitSet =>
             pc' = "turn" /\ user_input = Lower(heard.text))
       /\ (pc' = "farewell" => pc = "check")]_vars

\* C8 witness: "goodbye for now" has been processed as an ordinary turn.
C8_Witness ==
    /\ pc = "speak_response"
    /\ heard.text = <<"g","o","o","d","b","y","e"," ","f","o","r"," ","n","o","w">>
    /\ messages[Len(messages) - 1] = [role |-> "user", content |-> heard.text]

\* C9: each of the three recognition failures gives the empty input, and on
\* an empty input the controller goes back to listening with the history, the
\* backend calls, the speak calls, the farewell and the running flag untouched.
C9_EmptyInputSkips ==
    [][/\ (pc = "listen" /\ pc' = "check" /\ heard'.kind # "text" => user_input' = << >>)
       /\ (pc = "check" /\ user_input = << >> =>
             /\ pc' = "loop"
             /\ UNCHANGED <<messages, nGenerate, nSpeak, nTurn, nFarewell, running>>)
       /\ (pc = "loop" =>
             /\ pc' = "listen"
             /\ UNCHANGED <<messages, nGenerate, nSpeak, nTurn, nFarewell, running>>)]_vars

\* C9 witness: after a recognition failure the controller listens again.
C9_Witness ==
    /\ pc = "listen"
    /\ heard.kind = "RequestError"
    /\ user_input = << >>
    /\ nListen = 1
    /\ Len(messages) = 1
    /\ running

\* the placeholders of a scenario's three templates
ScenarioPlaceholders(scn) ==
    UNION {Placeholders(GetPromptTemplate(scn, ph)) : ph \in Phases}

\* C10: for an agent of a known scenario, the keys loaded into the profile
\* and the knowledge are exactly the placeholders of the scenario's three
\* templates other than conversation_history and user_input.
C10_KeysMatchPlaceholders ==
    scenario \in Scenarios =>
        (DOMAIN context.profile) \cup (DOMAIN context.knowledge)
          = ScenarioPlaceholders(scenario) \ {"conversation_history", "user_input"}

\* C10 witness: an interview agent, which loads both buckets, has made its call.
C10_Witness ==
    /\ scenario = "interview"
    /\ pc = "done"
    /\ nFarewell = 1
    /\ DOMAIN context.knowledge # {}

\* the label the rendering gives a role
C11_Label(role) == IF role = "user" THEN "Customer" ELSE "AI"

\* a text cut into its lines at the line breaks
RECURSIVE C11_Lines(_, _)
C11_Lines(text, cur) ==
    IF text = << >> THEN (IF cur = << >> THEN << >> ELSE <<cur>>)
    ELSE IF Head(text) = "\n" THEN <<cur>> \o C11_Lines(Tail(text), << >>)
    ELSE C11_Lines(Tail(text), Append(cur, Head(text)))

\* where the entry of the i-th turn starts in the rendering: each earlier
\* turn takes its label, the separator, its content and a line break
RECURSIVE C11_Offset(_, _)
C11_Offset(msgs, i) ==
    IF i <= 1 THEN 0
    ELSE C11_Offset(msgs, i - 1) + Len(msgs[i - 1].content) + 3

\* no turn of the history holds a line break
C11_SingleLineContents(msgs) ==
    \A i \in DOMAIN msgs : \A k \in DOMAIN msgs[i].content : msgs[i].content[k] # "\n"

\* C11 as stated: the rendering of N turns is exactly N lines, the i-th being
\* the label of the i-th turn's role followed by its content.
C11_RendersNLines ==
    pc = "rendered" =>
        LET lines == C11_Lines(history, << >>) IN
        /\ Len(lines) = Len(messages)
        /\ \A i \in DOMAIN messages :
              lines[i] = <<C11_Label(messages[i].role), ": ">> \o messages[i].content

\* C11 amended: the rendering of N turns is N entries in append order, the
\* i-th being the label of the i-th turn's role, ": ", the turn's content and a
\* line break; these are exactly N lines when no content holds a line break;
\* rendering leaves the history as it was.
C11_RendersNEntries ==
    /\ [](pc = "rendered" =>
            /\ Len(history) = C11_Offset(messages, Len(messages) + 1)
            /\ \A i \in DOMAIN messages :
                  LET off == C11_Offset(messages, i)
                      n == Len(messages[i].content)
                  IN  /\ history[off + 1] = C11_Label(messages[i].role)
                      /\ history[off + 2] = ": "
                      /\ SubSeq(history, off + 3, off + 2 + n) = messages[i].content
                      /\ history[off + 3 + n] = "\n"
            /\ (C11_SingleLineContents(messages) =>
                  Len(C11_Lines(history, << >>)) = Len(messages)))
    /\ [][pc' = "rendered" => messages' = messages]_vars

\* C11 witness: three turns of both roles have been rendered, one of them
\* holding a line break.
C11_Witness ==
    /\ pc = "rendered"
    /\ Len(messages) = 3
    /\ messages[1].role = "agent"
    /\ messages[2].role = "user"
    /\ ~C11_SingleLineContents(messages)
    /\ Len(C11_Lines(history, << >>)) = 4

\* the scenario the claim gives each valid choice
C12_Scenario(c) ==
    IF c = <<"1">> THEN "demo" ELSE IF c = <<"2">> THEN "interview" ELSE "payment"

C12_ValidChoices == { <<"1">>, <<"2">>, <<"3">> }

\* C12: once main has read the choice: a choice other than 1, 2 or 3 has
\* printed the error, constructed no agent and started no call, and main has
\* ended for good; a valid choice has printed no error and constructed exactly
\* one agent, of the mapped scenario; and the agent's scenario and scenario
\* data never change afterwards.
C12_DriverChoice ==
    /\ [](pc # "main" /\ choice \notin C12_ValidChoices =>
            /\ pc = "exit"
            /\ printed
            /\ nAgents = 0
            /\ scenario = "None"
            /\ ~running
            /\ messages = << >>
            /\ nGreeting + nTurn + nFarewell + nGenerate + nSpeak + nListen = 0)
    /\ [](pc # "main" /\ choice \in C12_ValidChoices =>
            /\ pc # "exit"
            /\ ~printed
            /\ nAgents = 1
            /\ scenario = C12_Scenario(choice)
            /\ context = LoadScenarioData(C12_Scenario(choice)))
    /\ [][pc # "exit"]_vars
    /\ [][pc # "main" => UNCHANGED <<choice, scenario, context, nAgents, printed>>]_vars

\* C12 witness: the choice 9 has been refused.
C12_Witness == pc = "exit" /\ choice = <<"9">> /\ printed /\ nAgents = 0

====
